---------------------------- MODULE Spec2Model ----------------------------
(***************************************************************************)
(* Model of scripts/test-template-validation.py: the regular-expression    *)
(* patterns of the issue templates, the evaluator test_pattern and the     *)
(* driver main.  Strings are sequences of one-character strings.           *)
(***************************************************************************)
EXTENDS Integers, Sequences, FiniteSets, TLC

VARIABLES
    pc,                 \* position of the running code
    cases,              \* the four (name, pattern, valid, invalid) literals of main
    caseIdx,            \* which of main's four calls is being made
    all_tests_passed,   \* main's accumulator
    results,            \* the values test_pattern returned to main, in call order
    exit_code,          \* what main returned to sys.exit
    caller,             \* who called test_pattern
    name,               \* test_pattern's arguments
    pattern,
    valid_inputs,
    invalid_inputs,
    idx,                \* position of the running for loop
    all_passed,         \* test_pattern's accumulator
    ret,                \* test_pattern's return value
    test_input,         \* the string handed to regex.match
    match,              \* truth value of the match object
    output              \* the lines printed so far

vars == << pc, cases, caseIdx, all_tests_passed, results, exit_code, caller,
           name, pattern, valid_inputs, invalid_inputs, idx, all_passed, ret,
           test_input, match, output >>

-----------------------------------------------------------------------------
(* Bounds of the model *)

\* longest string enumerated over the whole alphabet
MaxLen == 3

\* longest run of the repeated middle character in the long strings
MaxMid == 40

\* longest example list handed to a lone test_pattern call
MaxExamples == 2

-----------------------------------------------------------------------------
(* Characters *)

Digit == {"0", "1", "2", "3", "4", "5", "6", "7", "8", "9"}
Lower == {"a", "b", "c", "d", "e", "f", "g", "h", "i", "j", "k", "l", "m", "n", "o", "p", "q", "r", "s", "t", "u", "v", "w", "x", "y", "z"}
Upper == {"A", "B", "C", "D", "E", "F", "G", "H", "I", "J", "K", "L", "M", "N", "O", "P", "Q", "R", "S", "T", "U", "V", "W", "X", "Y", "Z"}
Alnum == Lower \cup Upper \cup Digit
AlnumHyphen == Alnum \cup {"-"}

\* s * n of Python, for a one-character s
RECURSIVE Times(_, _)
Times(c, n) == IF n <= 0 THEN <<>> ELSE <<c>> \o Times(c, n - 1)

-----------------------------------------------------------------------------
(* The regular-expression engine: re.compile and regex.match.  A compiled  *)
(* pattern is a tree; Ends gives every position at which a match of the    *)
(* tree can end when it starts at one of the positions P (positions are    *)
(* 1-based, Len(s) + 1 is the end of the string).                          *)

Bol == [op |-> "bol"]
Eol == [op |-> "eol"]
Set(S) == [op |-> "set", chars |-> S]
Cat(rs) == [op |-> "seq", subs |-> rs]
Rep(r, lo, hi) == [op |-> "rep", sub |-> r, min |-> lo, max |-> hi]
Opt(r) == Rep(r, 0, 1)
Plus(r) == Rep(r, 1, -1)

\* ^ without re.MULTILINE: only at the start of the string
AtBol(s, p) == p = 1

\* faulty variant of AtEol: a pattern whose $ was left out
AtEolAbsent(s, p) == p <= Len(s) + 1

\* $ without re.MULTILINE: at the end of the string, or just before a
\* newline that is the last character of the string
AtEol(s, p) == \/ p = Len(s) + 1
               \/ p = Len(s) /\ s[p] = "\n"

RECURSIVE Ends(_, _, _)
RECURSIVE RepEnds(_, _, _, _)

RepEnds(r, s, P, n) ==
    IF P = {} THEN {}
    ELSE (IF n >= r.min THEN P ELSE {})
         \cup (IF r.max # -1 /\ n >= r.max THEN {}
               ELSE RepEnds(r, s, Ends(r.sub, s, P), n + 1))

Ends(r, s, P) ==
    CASE r.op = "bol" -> {p \in P : AtBol(s, p)}
      [] r.op = "eol" -> {p \in P : AtEol(s, p)}
      [] r.op = "set" -> {p + 1 : p \in {q \in P : q <= Len(s) /\ s[q] \in r.chars}}
      [] r.op = "seq" -> IF r.subs = <<>> THEN P
                         ELSE Ends(Cat(Tail(r.subs)), s, Ends(Head(r.subs), s, P))
      [] r.op = "rep" -> RepEnds(r, s, P, 0)

\* bool(regex.match(s)): a match that starts at the first character
ReMatch(regex, s) == Ends(regex, s, {1}) # {}

-----------------------------------------------------------------------------
(* The four patterns of main, as written and as compiled *)

IssueNumberText == "^#?\\d+$"
GitHubUsernameText == "^[a-zA-Z0-9]([a-zA-Z0-9-]{0,37}[a-zA-Z0-9])?$"
BotUsernameText == "^[a-zA-Z0-9]([a-zA-Z0-9-]{0,37}[a-zA-Z0-9])?\\[bot\\]$"
AppIdText == "^\\d+$"

PatternTexts == {IssueNumberText, GitHubUsernameText, BotUsernameText, AppIdText}

IssueNumberRegex == Cat(<< Bol, Opt(Set({"#"})), Plus(Set(Digit)), Eol >>)

\* faulty variant of UsernameBody: the repetition bound off by one
UsernameBodyOneMore ==
    << Set(Alnum), Opt(Cat(<< Rep(Set(AlnumHyphen), 0, 38), Set(Alnum) >>)) >>

\* [a-zA-Z0-9]([a-zA-Z0-9-]{0,37}[a-zA-Z0-9])?
UsernameBody ==
    << Set(Alnum), Opt(Cat(<< Rep(Set(AlnumHyphen), 0, 37), Set(Alnum) >>)) >>

GitHubUsernameRegex == Cat(<<Bol>> \o UsernameBody \o <<Eol>>)

BotUsernameRegex ==
    Cat(<<Bol>> \o UsernameBody
        \o << Set({"["}), Set({"b"}), Set({"o"}), Set({"t"}), Set({"]"}), Eol >>)

AppIdRegex == Cat(<< Bol, Plus(Set(Digit)), Eol >>)

\* re.compile(pattern)
Compile(p) ==
    CASE p = IssueNumberText -> IssueNumberRegex
      [] p = GitHubUsernameText -> GitHubUsernameRegex
      [] p = BotUsernameText -> BotUsernameRegex
      [] p = AppIdText -> AppIdRegex

-----------------------------------------------------------------------------
(* The example tables of main *)

IssueNumberValid ==
    << <<"1">>,
       <<"1", "2", "3">>,
       <<"#", "1">>,
       <<"#", "1", "2", "3">>,
       <<"9", "9", "9", "9">> >>

IssueNumberInvalid ==
    << <<>>,
       <<"#">>,
       <<"a", "b", "c">>,
       <<"#", "a", "b", "c">>,
       <<"1", "2", "a">>,
       <<"1", "2", " ", "3", "4">>,
       <<"1", "2", ".", "3", "4">>,
       <<"-", "1", "2">> >>

GitHubUsernameValid ==
    << <<"c", "o", "p", "i", "l", "o", "t">>,
       <<"u", "s", "e", "r", "1", "2", "3">>,
       <<"m", "y", "-", "b", "o", "t", "-", "n", "a", "m", "e">>,
       <<"A", "B", "C">>,
       <<"a">>,
       <<"u", "s", "e", "r", "-", "n", "a", "m", "e", "-", "w", "i", "t", "h", "-", "h", "y", "p", "h", "e", "n", "s">>,
       <<"a">> \o Times("1", 37) \o <<"b">> >>

GitHubUsernameInvalid ==
    << <<>>,
       <<"-", "i", "n", "v", "a", "l", "i", "d">>,
       <<"i", "n", "v", "a", "l", "i", "d", "-">>,
       <<"u", "s", "e", "r", " ", "n", "a", "m", "e">>,
       <<"u", "s", "e", "r", "@", "n", "a", "m", "e">>,
       <<"u", "s", "e", "r", ".", "n", "a", "m", "e">>,
       <<"u", "s", "e", "r", "_", "n", "a", "m", "e">>,
       <<"-", "-", "i", "n", "v", "a", "l", "i", "d">>,
       <<"a">> \o Times("1", 38) \o <<"b">> >>

BotUsernameValid ==
    << <<"c", "o", "p", "i", "l", "o", "t", "[", "b", "o", "t", "]">>,
       <<"m", "y", "-", "a", "p", "p", "[", "b", "o", "t", "]">>,
       <<"g", "i", "t", "h", "u", "b", "-", "a", "c", "t", "i", "o", "n", "s", "[", "b", "o", "t", "]">>,
       <<"a", "[", "b", "o", "t", "]">> >>

BotUsernameInvalid ==
    << <<>>,
       <<"c", "o", "p", "i", "l", "o", "t">>,
       <<"[", "b", "o", "t", "]">>,
       <<"c", "o", "p", "i", "l", "o", "t", "[", "b", "o", "t">>,
       <<"c", "o", "p", "i", "l", "o", "t", " ", "b", "o", "t", "]">>,
       <<"c", "o", "p", "i", "l", "o", "t", "-", "[", "b", "o", "t", "]">>,
       <<"-", "c", "o", "p", "i", "l", "o", "t", "[", "b", "o", "t", "]">>,
       <<"c", "o", "p", "i", "l", "o", "t", "[", "b", "o", "t", "]", "-">>,
       <<"c", "o", "p", "i", "l", "o", "t", "[", "B", "O", "T", "]">> >>

AppIdValid ==
    << <<"1">>,
       <<"1", "2", "3", "4", "5">>,
       <<"9", "9", "9", "9", "9", "9">>,
       <<"0">> >>

AppIdInvalid ==
    << <<>>,
       <<"a", "b", "c">>,
       <<"1", "2", "3", "a", "b", "c">>,
       <<"a", "b", "c", "1", "2", "3">>,
       <<"1", "2", ".", "3", "4">>,
       <<"-", "1", "2", "3">>,
       <<"1", "2", " ", "3", "4">>,
       <<"#", "1", "2", "3">> >>

Case(n, p, v, i) ==
    [name |-> n, pattern |-> p, valid_inputs |-> v, invalid_inputs |-> i]

IssueNumberCase ==
    Case("Issue Number Pattern", IssueNumberText, IssueNumberValid, IssueNumberInvalid)

GitHubUsernameCase ==
    Case("GitHub Username Pattern", GitHubUsernameText,
         GitHubUsernameValid, GitHubUsernameInvalid)

BotUsernameCase ==
    Case("Bot Username Pattern", BotUsernameText, BotUsernameValid, BotUsernameInvalid)

AppIdCase ==
    Case("GitHub App ID Pattern", AppIdText, AppIdValid, AppIdInvalid)

\* the four calls of main, in the order main makes them
ShippedCases == << IssueNumberCase, GitHubUsernameCase, BotUsernameCase, AppIdCase >>

-----------------------------------------------------------------------------
(* Inputs the model is run on *)

SeqsUpTo(S, n) == UNION {[1..k -> S] : k \in 0..n}

\* A case with one example filed in the wrong list: its first valid example
\* put in front of the invalid ones, or its second invalid example put
\* behind the valid ones.
MisfiledValid(c) ==
    [c EXCEPT !.invalid_inputs = <<Head(c.valid_inputs)>> \o @]

MisfiledInvalid(c) ==
    [c EXCEPT !.valid_inputs = Append(@, c.invalid_inputs[2])]

Editions(c) == {c, MisfiledValid(c), MisfiledInvalid(c)}

\* The tables main is run on: the shipped one and its editions, which make
\* every combination of case results happen.
CaseTables ==
    {<<c1, c2, c3, c4>> : c1 \in Editions(IssueNumberCase),
                          c2 \in Editions(GitHubUsernameCase),
                          c3 \in Editions(BotUsernameCase),
                          c4 \in Editions(AppIdCase)}

\* The examples a lone test_pattern call is run on
ExamplePool == { <<>>, <<"1">>, <<"a">>, <<"a", "[", "b", "o", "t", "]">> }
ExampleLists == SeqsUpTo(ExamplePool, MaxExamples)

\* The strings regex.match is run on: every string over Alphabet up to
\* MaxLen characters, alone and followed by a bot-like ending, and long
\* strings made of a repeated middle character between two edge characters.
Alphabet == {"1", "a", "B", "-", "#", "[", "]", " ", ".", "\n"}

Endings ==
    { <<>>,
      <<"[", "b", "o", "t", "]">>,
      <<"[", "B", "O", "T", "]">>,
      <<"[", "b", "o", "t">>,
      <<"[", "b", "o", "t", "]", "-">>,
      <<"[", "b", "o", "t", "]", "\n">> }

ShortStrings == {s \o e : s \in SeqsUpTo(Alphabet, MaxLen), e \in Endings}

LongStrings ==
    {<<c1>> \o Times(c2, n) \o <<c3>> \o e :
        c1 \in {"a", "1", "-"}, c2 \in {"1", "-"}, n \in 0..MaxMid,
        c3 \in {"b", "Z", "-"}, e \in {<<>>, <<"[", "b", "o", "t", "]">>, <<"\n">>}}

\* every example string of the shipped tables
ShippedExamples ==
    UNION {{c.valid_inputs[k] : k \in 1..Len(c.valid_inputs)}
           \cup {c.invalid_inputs[k] : k \in 1..Len(c.invalid_inputs)} :
           c \in {ShippedCases[j] : j \in 1..Len(ShippedCases)}}

MatchInputs == ShortStrings \cup LongStrings \cup ShippedExamples

-----------------------------------------------------------------------------
(* Printed lines *)

Line(k, l, s) == [kind |-> k, label |-> l, input |-> s]

\* print(f"\n{'='*60}"), "Testing:", "Pattern:", print(f"{'='*60}")
HeaderLines(n, p) ==
    << Line("blank_rule", "", <<>>), Line("testing", n, <<>>),
       Line("pattern", p, <<>>), Line("rule", "", <<>>) >>

ItemKinds == {"pass", "fail_should_match", "pass_rejected", "fail_should_not_match"}
FailKinds == {"fail_should_match", "fail_should_not_match"}

-----------------------------------------------------------------------------
(* test_pattern *)

\* lines 12-21: the header, re.compile, all_passed = True, the valid heading
TPHeader ==
    /\ pc = "tp_header"
    /\ output' = output \o HeaderLines(name, pattern)
                        \o << Line("valid_header", "", <<>>) >>
    /\ all_passed' = TRUE
    /\ idx' = 1
    /\ pc' = "tp_valid"
    /\ UNCHANGED << cases, caseIdx, all_tests_passed, results, exit_code, caller,
                    name, pattern, valid_inputs, invalid_inputs, ret,
                    test_input, match >>

\* faulty variant of TPValid: leaves the loop at the first mismatch
TPValidBreak ==
    /\ pc = "tp_valid"
    /\ idx <= Len(valid_inputs)
    /\ LET m == ReMatch(Compile(pattern), valid_inputs[idx])
       IN  /\ test_input' = valid_inputs[idx]
           /\ match' = m
           /\ output' = Append(output,
                  Line(IF m THEN "pass" ELSE "fail_should_match", "", valid_inputs[idx]))
           /\ all_passed' = (IF m THEN all_passed ELSE FALSE)
           /\ idx' = (IF m THEN idx + 1 ELSE Len(valid_inputs) + 1)
    /\ UNCHANGED << pc, cases, caseIdx, all_tests_passed, results, exit_code, caller,
                    name, pattern, valid_inputs, invalid_inputs, ret >>

\* faulty variant of TPValid: all_passed follows the last example only
TPValidReset ==
    /\ pc = "tp_valid"
    /\ idx <= Len(valid_inputs)
    /\ LET m == ReMatch(Compile(pattern), valid_inputs[idx])
       IN  /\ test_input' = valid_inputs[idx]
           /\ match' = m
           /\ output' = Append(output,
                  Line(IF m THEN "pass" ELSE "fail_should_match", "", valid_inputs[idx]))
           /\ all_passed' = m
    /\ idx' = idx + 1
    /\ UNCHANGED << pc, cases, caseIdx, all_tests_passed, results, exit_code, caller,
                    name, pattern, valid_inputs, invalid_inputs, ret >>

\* lines 22-28: one turn of the loop over valid_inputs
TPValid ==
    /\ pc = "tp_valid"
    /\ idx <= Len(valid_inputs)
    /\ LET m == ReMatch(Compile(pattern), valid_inputs[idx])
       IN  /\ test_input' = valid_inputs[idx]
           /\ match' = m
           /\ output' = Append(output,
                  Line(IF m THEN "pass" ELSE "fail_should_match", "", valid_inputs[idx]))
           /\ all_passed' = (IF m THEN all_passed ELSE FALSE)
    /\ idx' = idx + 1
    /\ UNCHANGED << pc, cases, caseIdx, all_tests_passed, results, exit_code, caller,
                    name, pattern, valid_inputs, invalid_inputs, ret >>

\* line 31: the loop over valid_inputs is over, the invalid heading
TPValidEnd ==
    /\ pc = "tp_valid"
    /\ idx > Len(valid_inputs)
    /\ output' = Append(output, Line("invalid_header", "", <<>>))
    /\ idx' = 1
    /\ pc' = "tp_invalid"
    /\ UNCHANGED << cases, caseIdx, all_tests_passed, results, exit_code, caller,
                    name, pattern, valid_inputs, invalid_inputs, all_passed, ret,
                    test_input, match >>

\* faulty variant of TPInvalid: reports the mismatch and does not record it
TPInvalidForgets ==
    /\ pc = "tp_invalid"
    /\ idx <= Len(invalid_inputs)
    /\ LET m == ReMatch(Compile(pattern), invalid_inputs[idx])
       IN  /\ test_input' = invalid_inputs[idx]
           /\ match' = m
           /\ output' = Append(output,
                  Line(IF ~m THEN "pass_rejected" ELSE "fail_should_not_match", "",
                       invalid_inputs[idx]))
    /\ idx' = idx + 1
    /\ UNCHANGED << pc, cases, caseIdx, all_tests_passed, results, exit_code, caller,
                    name, pattern, valid_inputs, invalid_inputs, all_passed, ret >>

\* lines 32-38: one turn of the loop over invalid_inputs
TPInvalid ==
    /\ pc = "tp_invalid"
    /\ idx <= Len(invalid_inputs)
    /\ LET m == ReMatch(Compile(pattern), invalid_inputs[idx])
       IN  /\ test_input' = invalid_inputs[idx]
           /\ match' = m
           /\ output' = Append(output,
                  Line(IF ~m THEN "pass_rejected" ELSE "fail_should_not_match", "",
                       invalid_inputs[idx]))
           /\ all_passed' = (IF ~m THEN all_passed ELSE FALSE)
    /\ idx' = idx + 1
    /\ UNCHANGED << pc, cases, caseIdx, all_tests_passed, results, exit_code, caller,
                    name, pattern, valid_inputs, invalid_inputs, ret >>

\* line 40: return all_passed, to main or to the lone caller
TPReturn ==
    /\ pc = "tp_invalid"
    /\ idx > Len(invalid_inputs)
    /\ ret' = all_passed
    /\ pc' = (IF caller = "main" THEN "main_acc" ELSE "call_done")
    /\ UNCHANGED << cases, caseIdx, all_tests_passed, results, exit_code, caller,
                    name, pattern, valid_inputs, invalid_inputs, idx, all_passed,
                    test_input, match, output >>

-----------------------------------------------------------------------------
(* main *)

\* lines 44-47: the title and all_tests_passed = True
MainBegin ==
    /\ pc = "main_begin"
    /\ output' = output \o << Line("title", "", <<>>), Line("rule", "", <<>>) >>
    /\ all_tests_passed' = TRUE
    /\ caseIdx' = 1
    /\ pc' = "main_call"
    /\ UNCHANGED << cases, results, exit_code, caller, name, pattern, valid_inputs,
                    invalid_inputs, idx, all_passed, ret, test_input, match >>

\* lines 50, 73, 99, 122: the call of test_pattern with the next case's literals
MainCall ==
    /\ pc = "main_call"
    /\ caller' = "main"
    /\ name' = cases[caseIdx].name
    /\ pattern' = cases[caseIdx].pattern
    /\ valid_inputs' = cases[caseIdx].valid_inputs
    /\ invalid_inputs' = cases[caseIdx].invalid_inputs
    /\ pc' = "tp_header"
    /\ UNCHANGED << cases, caseIdx, all_tests_passed, results, exit_code, idx,
                    all_passed, ret, test_input, match, output >>

\* faulty variant of MainAccumulate: = where the code has &=
MainAccumulateAssigns ==
    /\ pc = "main_acc"
    /\ all_tests_passed' = ret
    /\ results' = Append(results, ret)
    /\ caseIdx' = caseIdx + 1
    /\ pc' = (IF caseIdx = Len(cases) THEN "main_summary" ELSE "main_call")
    /\ UNCHANGED << cases, exit_code, caller, name, pattern, valid_inputs,
                    invalid_inputs, idx, all_passed, ret, test_input, match, output >>

\* faulty variant of MainAccumulate: the later calls are skipped once a
\* call returned false
MainAccumulateShortCircuits ==
    /\ pc = "main_acc"
    /\ all_tests_passed' = (all_tests_passed /\ ret)
    /\ results' = Append(results, ret)
    /\ caseIdx' = caseIdx + 1
    /\ pc' = (IF caseIdx = Len(cases) \/ ~ret THEN "main_summary" ELSE "main_call")
    /\ UNCHANGED << cases, exit_code, caller, name, pattern, valid_inputs,
                    invalid_inputs, idx, all_passed, ret, test_input, match, output >>

\* all_tests_passed &= <the returned value>; then the next call, or the summary
MainAccumulate ==
    /\ pc = "main_acc"
    /\ all_tests_passed' = (all_tests_passed /\ ret)
    /\ results' = Append(results, ret)
    /\ caseIdx' = caseIdx + 1
    /\ pc' = (IF caseIdx = Len(cases) THEN "main_summary" ELSE "main_call")
    /\ UNCHANGED << cases, exit_code, caller, name, pattern, valid_inputs,
                    invalid_inputs, idx, all_passed, ret, test_input, match, output >>

\* lines 144-152: the summary and the return value, which sys.exit takes
MainSummary ==
    /\ pc = "main_summary"
    /\ output' = output \o
          << Line("blank_rule", "", <<>>),
             Line(IF all_tests_passed THEN "all_passed" ELSE "some_failed", "", <<>>),
             Line("rule", "", <<>>) >>
    /\ exit_code' = (IF all_tests_passed THEN 0 ELSE 1)
    /\ pc' = "done"
    /\ UNCHANGED << cases, caseIdx, all_tests_passed, results, caller, name, pattern,
                    valid_inputs, invalid_inputs, idx, all_passed, ret,
                    test_input, match >>

-----------------------------------------------------------------------------
(* regex.match alone *)

\* lines 17, 23: regex = re.compile(pattern); match = regex.match(test_input)
RegexMatch ==
    /\ pc = "match_call"
    /\ match' = ReMatch(Compile(pattern), test_input)
    /\ pc' = "match_done"
    /\ UNCHANGED << cases, caseIdx, all_tests_passed, results, exit_code, caller,
                    name, pattern, valid_inputs, invalid_inputs, idx, all_passed,
                    ret, test_input, output >>

-----------------------------------------------------------------------------
(* Specifications *)

\* before anything ran: nothing is assigned yet
Unset ==
    /\ caseIdx = 0
    /\ all_tests_passed = FALSE
    /\ results = <<>>
    /\ exit_code = -1
    /\ idx = 0
    /\ all_passed = FALSE
    /\ ret = FALSE
    /\ match = FALSE
    /\ output = <<>>

\* the script is started: main runs on one of the tables
Init ==
    /\ pc = "main_begin"
    /\ cases \in CaseTables
    /\ caller = "none"
    /\ name = ""
    /\ pattern = ""
    /\ valid_inputs = <<>>
    /\ invalid_inputs = <<>>
    /\ test_input = <<>>
    /\ Unset

Next ==
    \/ MainBegin
    \/ MainCall
    \/ TPHeader
    \/ TPValid
    \/ TPValidEnd
    \/ TPInvalid
    \/ TPReturn
    \/ MainAccumulate
    \/ MainSummary

Spec == Init /\ [][Next]_vars

\* test_pattern is called alone, with any pattern and any two example lists
InitCall ==
    /\ pc = "tp_header"
    /\ cases = <<>>
    /\ caller = "call"
    /\ name = "lone call"
    /\ pattern \in PatternTexts
    /\ valid_inputs \in ExampleLists
    /\ invalid_inputs \in ExampleLists
    /\ test_input = <<>>
    /\ Unset

NextCall ==
    \/ TPHeader
    \/ TPValid
    \/ TPValidEnd
    \/ TPInvalid
    \/ TPReturn

SpecCall == InitCall /\ [][NextCall]_vars

\* a compiled pattern is matched against one string
InitMatch ==
    /\ pc = "match_call"
    /\ cases = <<>>
    /\ caller = "none"
    /\ name = ""
    /\ pattern \in PatternTexts
    /\ valid_inputs = <<>>
    /\ invalid_inputs = <<>>
    /\ test_input \in MatchInputs
    /\ Unset

NextMatch == RegexMatch

SpecMatch == InitMatch /\ [][NextMatch]_vars

-----------------------------------------------------------------------------
(* Properties *)

Matches(p, s) == ReMatch(Compile(p), s)

\* every example of v matches p and no example of i does
AsExpected(p, v, i) ==
    /\ \A k \in 1..Len(v) : Matches(p, v[k])
    /\ \A k \in 1..Len(i) : ~Matches(p, i[k])

IsItem(l) == l.kind \in ItemKinds
ItemLines(out) == SelectSeq(out, IsItem)
FailPrinted == \E k \in 1..Len(output) : output[k].kind \in FailKinds

\* The languages of the four patterns, stated on whole strings
AllIn(s, S) == \A k \in 1..Len(s) : s[k] \in S

IsDigits(s) == Len(s) >= 1 /\ AllIn(s, Digit)

IsIssueNumber(s) ==
    /\ Len(s) >= 1
    /\ IsDigits(IF s[1] = "#" THEN Tail(s) ELSE s)

UsernameShape(s) ==
    /\ Len(s) >= 1
    /\ AllIn(s, AlnumHyphen)
    /\ s[1] \in Alnum
    /\ s[Len(s)] \in Alnum

IsGitHubUsername(s) == UsernameShape(s) /\ Len(s) <= 39

BotSuffix == <<"[", "b", "o", "t", "]">>

IsBotUsername(s) ==
    /\ Len(s) > Len(BotSuffix)
    /\ SubSeq(s, Len(s) - Len(BotSuffix) + 1, Len(s)) = BotSuffix
    /\ IsGitHubUsername(SubSeq(s, 1, Len(s) - Len(BotSuffix)))

InLanguage(p, s) ==
    CASE p = IssueNumberText -> IsIssueNumber(s)
      [] p = GitHubUsernameText -> IsGitHubUsername(s)
      [] p = BotUsernameText -> IsBotUsername(s)
      [] p = AppIdText -> IsDigits(s)

\* C1: when main has returned, four calls of test_pattern were made, the
\* exit status is 0 or 1, and it is 0 exactly when all four calls returned
\* true.
C1_ExitZeroIffAllCasesTrue ==
    pc = "done" =>
        /\ Len(results) = 4
        /\ exit_code \in {0, 1}
        /\ (exit_code = 0 <=> \A k \in 1..4 : results[k])

\* a run in which only the first case failed, and the exit status is 1
C1_Witness ==
    /\ pc = "done"
    /\ results = <<FALSE, TRUE, TRUE, TRUE>>
    /\ exit_code = 1

\* C2: test_pattern returns true exactly when every valid example matches
\* the pattern and every invalid example does not; all along the call the
\* accumulator is true exactly when every example evaluated so far behaved
\* as expected, so a later passing example never sets it back to true.
C2_ResultIffAllAsExpected ==
    /\ pc = "tp_valid" =>
          all_passed = AsExpected(pattern, SubSeq(valid_inputs, 1, idx - 1), <<>>)
    /\ pc = "tp_invalid" =>
          all_passed = AsExpected(pattern, valid_inputs,
                                  SubSeq(invalid_inputs, 1, idx - 1))
    /\ pc = "call_done" =>
          ret = AsExpected(pattern, valid_inputs, invalid_inputs)

\* a call that returned false though only its first example mismatched and
\* passing examples followed it
C2_Witness ==
    /\ pc = "call_done"
    /\ ret = FALSE
    /\ Len(valid_inputs) = 2
    /\ ~Matches(pattern, valid_inputs[1])
    /\ Matches(pattern, valid_inputs[2])
    /\ Len(invalid_inputs) >= 1
    /\ AsExpected(pattern, <<>>, invalid_inputs)

\* C3: when test_pattern returns it has printed exactly one PASS or FAIL
\* line per example, for the valid examples and then the invalid ones, in
\* list order, whatever the earlier examples did.
C3_OneLinePerExampleInOrder ==
    pc = "call_done" =>
        LET items == ItemLines(output)
            all == valid_inputs \o invalid_inputs
        IN  /\ Len(items) = Len(valid_inputs) + Len(invalid_inputs)
            /\ \A k \in 1..Len(items) :
                  /\ items[k].input = all[k]
                  /\ items[k].kind \in
                        (IF k <= Len(valid_inputs)
                         THEN {"pass", "fail_should_match"}
                         ELSE {"pass_rejected", "fail_should_not_match"})

\* a call whose first valid example failed and which still reported all
\* four of its examples
C3_Witness ==
    /\ pc = "call_done"
    /\ Len(valid_inputs) = 2
    /\ Len(invalid_inputs) = 2
    /\ ItemLines(output)[1].kind = "fail_should_match"
    /\ Len(ItemLines(output)) = 4

\* C4: main run on the four shipped cases returns 0: each of the four calls
\* returned true and no FAIL line was printed.
C4_ShippedCasesExitZero ==
    (pc = "done" /\ cases = ShippedCases) =>
        /\ exit_code = 0
        /\ results = <<TRUE, TRUE, TRUE, TRUE>>
        /\ ~FailPrinted

\* the run on the shipped cases has ended
C4_Witness ==
    /\ pc = "done"
    /\ cases = ShippedCases
    /\ Len(ItemLines(output)) = 54
    /\ exit_code = 0

\* C5: a match of any of the four patterns is a match of the whole string:
\* the string, with nothing left over, is a word of the pattern's language.
C5_MatchIsFullString ==
    (pc = "match_done" /\ match) => InLanguage(pattern, test_input)

\* C6: on the strings of letters, digits and hyphens that begin and end
\* with a letter or digit, the GitHub Username pattern matches exactly
\* those of at most 39 characters.
C6_UsernameLengthBoundary ==
    (/\ pc = "match_done"
     /\ pattern = GitHubUsernameText
     /\ UsernameShape(test_input)) =>
        (match <=> Len(test_input) <= 39)

\* 'a' + 37 * '1' + 'b' was matched against the GitHub Username pattern
C6_Witness ==
    /\ pc = "match_done"
    /\ pattern = GitHubUsernameText
    /\ test_input = <<"a">> \o Times("1", 37) \o <<"b">>
    /\ match

\* C7: the Bot Username pattern matches only strings that end with the
\* lowercase '[bot]' after a non-empty name satisfying the GitHub Username
\* pattern, and matches none of 'copilot[BOT]', '[bot]', 'copilot-[bot]',
\* 'copilot[bot]-'.
C7_BotSuffixExact ==
    (pc = "match_done" /\ pattern = BotUsernameText) =>
        /\ match =>
              /\ Len(test_input) > Len(BotSuffix)
              /\ SubSeq(test_input, Len(test_input) - Len(BotSuffix) + 1,
                        Len(test_input)) = BotSuffix
              /\ Matches(GitHubUsernameText,
                         SubSeq(test_input, 1, Len(test_input) - Len(BotSuffix)))
        /\ test_input \in { BotUsernameInvalid[3], BotUsernameInvalid[6],
                            BotUsernameInvalid[8], BotUsernameInvalid[9] }
              => ~match

\* C8: a mismatch never stops the run: until main has returned a next step
\* exists, and when it has returned the exit status is 1 exactly when a
\* FAIL line was printed, 0 exactly when none was, and the banner printed
\* is the one of that status.
C8_MismatchReportedNeverFatal ==
    /\ pc # "done" => ENABLED Next
    /\ pc = "done" =>
          /\ exit_code \in {0, 1}
          /\ (exit_code = 1 <=> FailPrinted)
          /\ output[Len(output) - 1].kind =
                (IF exit_code = 0 THEN "all_passed" ELSE "some_failed")

\* a run that printed a FAIL line went on to the summary and exited 1
C8_Witness ==
    /\ pc = "done"
    /\ FailPrinted
    /\ exit_code = 1
    /\ output[Len(output) - 1].kind = "some_failed"

\* what a line is, in the layout of the report
LineClass(l) ==
    CASE l.kind \in {"pass", "fail_should_match"} -> <<"valid_item", "">>
      [] l.kind \in {"pass_rejected", "fail_should_not_match"} -> <<"invalid_item", "">>
      [] l.kind \in {"all_passed", "some_failed"} -> <<"banner", "">>
      [] OTHER -> <<l.kind, l.label>>

IsLayout(l) == l.kind \notin {"rule", "blank_rule", "pattern"}

Layout(out) ==
    LET kept == SelectSeq(out, IsLayout)
    IN  [k \in 1..Len(kept) |-> LineClass(kept[k])]

Copies(x, n) == [k \in 1..n |-> x]

\* the layout of one case: its heading, the valid block, the invalid block
CaseLayout(c) ==
    << <<"testing", c.name>>, <<"valid_header", "">> >>
    \o Copies(<<"valid_item", "">>, Len(c.valid_inputs))
    \o << <<"invalid_header", "">> >>
    \o Copies(<<"invalid_item", "">>, Len(c.invalid_inputs))

\* C9: main runs the four cases once each in the order Issue Number,
\* GitHub Username, Bot Username, App ID, whatever an earlier case
\* returned; in each case the heading comes before the valid block and
\* that before the invalid block; one banner follows the fourth case.
C9_CasesInOrderThenSummary ==
    pc = "done" =>
        /\ Len(results) = 4
        /\ Layout(output) =
              << <<"title", "">> >>
              \o CaseLayout(cases[1]) \o CaseLayout(cases[2])
              \o CaseLayout(cases[3]) \o CaseLayout(cases[4])
              \o << <<"banner", "">> >>
        /\ << cases[1].pattern, cases[2].pattern, cases[3].pattern, cases[4].pattern >>
              = << IssueNumberText, GitHubUsernameText, BotUsernameText, AppIdText >>

\* a run whose first two cases failed and whose last two were still run
C9_Witness ==
    /\ pc = "done"
    /\ results = <<FALSE, FALSE, TRUE, TRUE>>
    /\ Cardinality({k \in 1..Len(output) : output[k].kind = "testing"}) = 4

=============================================================================
